---- MODULE Spec2Model ----
(***************************************************************************)
(* Model of package dynago's document model (types.go): the Value          *)
(* vocabulary, Document.MarshalJSON / Document.UnmarshalJSON with the      *)
(* emptiness test isEmptyValue, the typed getters and the Params           *)
(* capability.  wireEncode, wireDecode, paramsHelper and the constant      *)
(* iso8601compact are not part of the sources at hand; they follow the     *)
(* design document (sections 4.2, 4.3, 4.4, 4.5).                          *)
(*                                                                         *)
(* Texts (Go strings) are sequences of one-character strings so that       *)
(* strconv.Atoi, time.Parse and base64 can be computed.  A Go value of     *)
(* static type interface{} is a record with one field per payload shape;   *)
(* only the field selected by `kind` is meaningful.                        *)
(***************************************************************************)
EXTENDS Integers, Sequences, FiniteSets, TLC

\* ------------------------------------------------------------------ bounds
MaxDepth == 1      \* nesting depth of the generated List / Document values
MaxLen == 2        \* length of the generated Lists
MaxCalls == 3      \* successful UnmarshalJSON calls recorded per run
MaxSources == 2    \* parameter sources handed to one Params(...) call

\* ------------------------------------------------------- value vocabulary
NoFields == [k \in {} |-> 0]

Blank ==
  [kind |-> "Nil", s |-> <<>>, b |-> FALSE, bytes |-> <<>>, strs |-> <<>>,
   blobs |-> <<>>, items |-> <<>>, fields |-> NoFields]

Nil == Blank
Str(t) == [Blank EXCEPT !.kind = "String", !.s = t]
Number(t) == [Blank EXCEPT !.kind = "Number", !.s = t]
Binary(bs) == [Blank EXCEPT !.kind = "Binary", !.bytes = bs]
Bool(x) == [Blank EXCEPT !.kind = "Bool", !.b = x]
StringSet(ts) == [Blank EXCEPT !.kind = "StringSet", !.strs = ts]
NumberSet(ts) == [Blank EXCEPT !.kind = "NumberSet", !.strs = ts]
BinarySet(bss) == [Blank EXCEPT !.kind = "BinarySet", !.blobs = bss]
List(vs) == [Blank EXCEPT !.kind = "List", !.items = vs]
DocumentValue(f) == [Blank EXCEPT !.kind = "Document", !.fields = f]

\* A Document variable: a Go map, which may be the nil map.
Document(f) == [nil |-> FALSE, m |-> f]
NilDocument == [nil |-> TRUE, m |-> NoFields]

\* reflect.Value.Kind() of reflect.ValueOf(v)
ReflectKind(v) ==
  CASE v.kind = "Nil" -> "Invalid"
    [] v.kind \in {"String", "Number"} -> "String"
    [] v.kind = "Bool" -> "Bool"
    [] v.kind = "Document" -> "Map"
    [] OTHER -> "Slice"

\* reflect.Value.Len() for the kinds that have one
ReflectLen(v) ==
  CASE v.kind \in {"String", "Number"} -> Len(v.s)
    [] v.kind = "Binary" -> Len(v.bytes)
    [] v.kind \in {"StringSet", "NumberSet"} -> Len(v.strs)
    [] v.kind = "BinarySet" -> Len(v.blobs)
    [] v.kind = "List" -> Len(v.items)
    [] v.kind = "Document" -> Cardinality(DOMAIN v.fields)
    [] OTHER -> 0

\* encoding/json's emptiness test: the variant that also counts false as empty
isEmptyValueWithBool(v) ==
  CASE ReflectKind(v) \in {"Array", "Map", "Slice", "String"} -> ReflectLen(v) = 0
    [] ReflectKind(v) = "Bool" -> ~v.b
    [] ReflectKind(v) = "Invalid" -> TRUE
    [] OTHER -> FALSE

\* the emptiness test with the String case dropped
isEmptyValueNoString(v) ==
  CASE ReflectKind(v) \in {"Array", "Map", "Slice"} -> ReflectLen(v) = 0
    [] ReflectKind(v) = "Invalid" -> TRUE
    [] OTHER -> FALSE

isEmptyValue(v) ==
  CASE ReflectKind(v) \in {"Array", "Map", "Slice", "String"} -> ReflectLen(v) = 0
    [] ReflectKind(v) = "Invalid" -> TRUE
    [] OTHER -> FALSE

\* ------------------------------------------------------------ JSON trees
NoObj == [k \in {} |-> 0]
JBlank == [j |-> "null", s |-> <<>>, b |-> FALSE, arr |-> <<>>, obj |-> NoObj]
JStr(t) == [JBlank EXCEPT !.j = "str", !.s = t]
JBool(x) == [JBlank EXCEPT !.j = "bool", !.b = x]
JArr(a) == [JBlank EXCEPT !.j = "arr", !.arr = a]
JObj(o) == [JBlank EXCEPT !.j = "obj", !.obj = o]
Tagged(tag, payload) == JObj([k \in {tag} |-> payload])

\* ---------------------------------------------------------------- base64
B64Alphabet ==
  <<"A","B","C","D","E","F","G","H","I","J","K","L","M","N","O","P",
    "Q","R","S","T","U","V","W","X","Y","Z","a","b","c","d","e","f",
    "g","h","i","j","k","l","m","n","o","p","q","r","s","t","u","v",
    "w","x","y","z","0","1","2","3","4","5","6","7","8","9","+","/">>

B64Char(n) == B64Alphabet[n + 1]
B64Index(c) == (CHOOSE i \in 1..64 : B64Alphabet[i] = c) - 1
IsB64Char(c) == \E i \in 1..64 : B64Alphabet[i] = c

RECURSIVE Base64Encode(_)
Base64Encode(bs) ==
  IF Len(bs) = 0 THEN <<>>
  ELSE IF Len(bs) = 1 THEN
    <<B64Char(bs[1] \div 4), B64Char((bs[1] % 4) * 16), "=", "=">>
  ELSE IF Len(bs) = 2 THEN
    <<B64Char(bs[1] \div 4), B64Char((bs[1] % 4) * 16 + bs[2] \div 16),
      B64Char((bs[2] % 16) * 4), "=">>
  ELSE
    <<B64Char(bs[1] \div 4), B64Char((bs[1] % 4) * 16 + bs[2] \div 16),
      B64Char((bs[2] % 16) * 4 + bs[3] \div 64), B64Char(bs[3] % 64)>>
    \o Base64Encode(SubSeq(bs, 4, Len(bs)))

RECURSIVE Base64Decode(_)
Base64Decode(t) ==
  IF Len(t) = 0 THEN [ok |-> TRUE, bytes |-> <<>>]
  ELSE IF Len(t) < 4 \/ ~IsB64Char(t[1]) \/ ~IsB64Char(t[2])
    THEN [ok |-> FALSE, bytes |-> <<>>]
  ELSE
    LET a == B64Index(t[1])
        b == B64Index(t[2])
        b1 == a * 4 + b \div 16
    IN IF t[3] = "=" THEN
         IF t[4] = "=" /\ Len(t) = 4
           THEN [ok |-> TRUE, bytes |-> <<b1>>]
           ELSE [ok |-> FALSE, bytes |-> <<>>]
       ELSE IF ~IsB64Char(t[3]) THEN [ok |-> FALSE, bytes |-> <<>>]
       ELSE
         LET c == B64Index(t[3])
             b2 == (b % 16) * 16 + c \div 4
         IN IF t[4] = "=" THEN
              IF Len(t) = 4
                THEN [ok |-> TRUE, bytes |-> <<b1, b2>>]
                ELSE [ok |-> FALSE, bytes |-> <<>>]
            ELSE IF ~IsB64Char(t[4]) THEN [ok |-> FALSE, bytes |-> <<>>]
            ELSE
              LET d == B64Index(t[4])
                  b3 == (c % 4) * 64 + d
                  rest == Base64Decode(SubSeq(t, 5, Len(t)))
              IN [ok |-> rest.ok, bytes |-> <<b1, b2, b3>> \o rest.bytes]

\* ------------------------------------------------- encoding/json (stdlib)
\* A byte that is not valid UTF-8, and U+FFFD which encoding/json puts in
\* its place when it writes or reads a string.
BadByte == "\\xff"
ReplacementChar == "\\ufffd"

Utf8Coerce(t) == [i \in DOMAIN t |-> IF t[i] = BadByte THEN ReplacementChar ELSE t[i]]

RECURSIVE JsonCoerce(_)
JsonCoerce(n) ==
  CASE n.j = "str" -> JStr(Utf8Coerce(n.s))
    [] n.j = "arr" -> JArr([i \in DOMAIN n.arr |-> JsonCoerce(n.arr[i])])
    [] n.j = "obj" -> JObj([k \in DOMAIN n.obj |-> JsonCoerce(n.obj[k])])
    [] OTHER -> n

\* json.Marshal(output): the buffer is carried as the tree it spells
JsonMarshal(tree) == [valid |-> TRUE, tree |-> JsonCoerce(tree)]
InvalidJson == [valid |-> FALSE, tree |-> JBlank]

\* json.Unmarshal(buf, &raw) with raw a map[string]interface{}
JsonUnmarshal(buf) ==
  IF buf.valid /\ buf.tree.j = "obj"
    THEN [err |-> FALSE, raw |-> JsonCoerce(buf.tree).obj]
    ELSE [err |-> TRUE, raw |-> NoObj]

\* ------------------------------------------------------------ wire codec
Keep(vs) == SelectSeq(vs, LAMBDA x : ~isEmptyValue(x))

RECURSIVE wireEncode(_)
wireEncode(v) ==
  CASE v.kind = "String" -> Tagged("S", JStr(v.s))
    [] v.kind = "Number" -> Tagged("N", JStr(v.s))
    [] v.kind = "Binary" -> Tagged("B", JStr(Base64Encode(v.bytes)))
    [] v.kind = "Bool" -> Tagged("BOOL", JBool(v.b))
    [] v.kind = "Nil" -> Tagged("NULL", JBool(TRUE))
    [] v.kind = "StringSet" ->
         Tagged("SS", JArr([i \in DOMAIN v.strs |-> JStr(v.strs[i])]))
    [] v.kind = "NumberSet" ->
         Tagged("NS", JArr([i \in DOMAIN v.strs |-> JStr(v.strs[i])]))
    [] v.kind = "BinarySet" ->
         Tagged("BS", JArr([i \in DOMAIN v.blobs |-> JStr(Base64Encode(v.blobs[i]))]))
    [] v.kind = "List" ->
         Tagged("L", JArr([i \in DOMAIN Keep(v.items) |-> wireEncode(Keep(v.items)[i])]))
    [] v.kind = "Document" ->
         Tagged("M", JObj([k \in {x \in DOMAIN v.fields : ~isEmptyValue(v.fields[x])}
                             |-> wireEncode(v.fields[k])]))

DecodeFailure == [ok |-> FALSE, val |-> Nil]
Decoded(v) == [ok |-> TRUE, val |-> v]
AllStr(a) == \A i \in DOMAIN a : a[i].j = "str"

RECURSIVE wireDecode(_)
wireDecode(n) ==
  IF n.j # "obj" \/ Cardinality(DOMAIN n.obj) # 1 THEN DecodeFailure
  ELSE
    LET tag == CHOOSE k \in DOMAIN n.obj : TRUE
        p == n.obj[tag]
    IN CASE tag = "S" /\ p.j = "str" -> Decoded(Str(p.s))
         [] tag = "N" /\ p.j = "str" -> Decoded(Number(p.s))
         [] tag = "B" /\ p.j = "str" ->
              IF Base64Decode(p.s).ok
                THEN Decoded(Binary(Base64Decode(p.s).bytes))
                ELSE DecodeFailure
         [] tag = "BOOL" /\ p.j = "bool" -> Decoded(Bool(p.b))
         [] tag = "NULL" -> Decoded(Nil)
         [] tag = "SS" /\ p.j = "arr" /\ AllStr(p.arr) ->
              Decoded(StringSet([i \in DOMAIN p.arr |-> p.arr[i].s]))
         [] tag = "NS" /\ p.j = "arr" /\ AllStr(p.arr) ->
              Decoded(NumberSet([i \in DOMAIN p.arr |-> p.arr[i].s]))
         [] tag = "BS" /\ p.j = "arr" /\ AllStr(p.arr) ->
              IF \A i \in DOMAIN p.arr : Base64Decode(p.arr[i].s).ok
                THEN Decoded(BinarySet([i \in DOMAIN p.arr |-> Base64Decode(p.arr[i].s).bytes]))
                ELSE DecodeFailure
         [] tag = "L" /\ p.j = "arr" ->
              IF \A i \in DOMAIN p.arr : wireDecode(p.arr[i]).ok
                THEN Decoded(List([i \in DOMAIN p.arr |-> wireDecode(p.arr[i]).val]))
                ELSE DecodeFailure
         [] tag = "M" /\ p.j = "obj" ->
              IF \A k \in DOMAIN p.obj : wireDecode(p.obj[k]).ok
                THEN Decoded(DocumentValue([k \in DOMAIN p.obj |-> wireDecode(p.obj[k]).val]))
                ELSE DecodeFailure
         [] OTHER -> DecodeFailure

\* ------------------------------------------- Document.MarshalJSON (39-47)
\* the loop without the emptiness test
MarshalJSONKeepAll(d) ==
  JsonMarshal(JObj([k \in DOMAIN d.m |-> wireEncode(d.m[k])]))

MarshalJSON(d) ==
  JsonMarshal(JObj([k \in {x \in DOMAIN d.m : ~isEmptyValue(d.m[x])}
                      |-> wireEncode(d.m[k])]))

\* ----------------------------------------- Document.UnmarshalJSON (49-64)
\* Each result is the call's outcome and the Document it leaves behind.
\* wireDecode has a single result (line 61), so a decode failure can only
\* leave the loop by a panic; the fields visited before it stay stored.
Merged(base, dec, ks) ==
  Document([k \in DOMAIN base.m \cup ks |-> IF k \in ks THEN dec[k].val ELSE base.m[k]])

\* the decode that replaces the Document instead of merging into it
UnmarshalJSONReplace(d, buf) ==
  LET r == JsonUnmarshal(buf)
      dec == [k \in DOMAIN r.raw |-> wireDecode(r.raw[k])]
      bad == {k \in DOMAIN r.raw : ~dec[k].ok}
  IN IF r.err THEN {[outcome |-> "error", d |-> d]}
     ELSE IF bad = {} THEN {[outcome |-> "ok", d |-> Merged(Document(NoFields), dec, DOMAIN r.raw)]}
     ELSE {[outcome |-> "panic", d |-> Merged(Document(NoFields), dec, ks)] :
             ks \in SUBSET (DOMAIN r.raw \ bad)}

UnmarshalJSON(d, buf) ==
  LET r == JsonUnmarshal(buf)
      base == IF d.nil THEN Document(NoFields) ELSE d
      dec == [k \in DOMAIN r.raw |-> wireDecode(r.raw[k])]
      bad == {k \in DOMAIN r.raw : ~dec[k].ok}
  IN IF r.err THEN {[outcome |-> "error", d |-> d]}
     ELSE IF bad = {} THEN {[outcome |-> "ok", d |-> Merged(base, dec, DOMAIN r.raw)]}
     ELSE {[outcome |-> "panic", d |-> Merged(base, dec, ks)] :
             ks \in SUBSET (DOMAIN r.raw \ bad)}

\* ------------------------------------------------------------ state
VARIABLES
  d,      \* the Document the calls operate on
  d0,     \* the Document as constructed (kept for reference)
  hist,   \* the payloads decoded into d so far by successful calls
  wire,   \* the buffer of the last MarshalJSON
  dst,    \* the fresh Document the buffer was decoded into
  ret     \* the last call: its name, arguments and result

vars == <<d, d0, hist, wire, dst, ret>>

NoCall == [op |-> "none"]

\* ------------------------------------------------------ sample values
Keys == {"a", "b"}
NestedKeys == {"k"}

TextX == <<"x">>
TextBad == <<"x", BadByte>>
Text150 == <<"1", ".", "5", "0">>
Text42 == <<"4", "2">>

Elems == {Nil, Str(<<>>), Str(TextX), Number(Text150), Bool(FALSE)}

Leafs ==
  Elems \cup
  { Str(TextBad), Number(<<>>), Number(Text42), Bool(TRUE),
    Binary(<<>>), Binary(<<77>>), Binary(<<255, 1>>), Binary(<<77, 97, 110, 0>>),
    StringSet(<<>>), StringSet(<<TextX, <<>>, TextX>>),
    NumberSet(<<>>), NumberSet(<<Text42, Text150>>),
    BinarySet(<<>>), BinarySet(<< <<1>>, <<>>, <<2, 3>> >>),
    List(<<>>), DocumentValue(NoFields) }

SeqsUpTo(S, n) == UNION {[1..i -> S] : i \in 0..n}
MapsOver(K, S) == UNION {[ks -> S] : ks \in SUBSET K}

RECURSIVE Vals(_)
Vals(n) ==
  IF n = 0 THEN Elems
  ELSE Vals(n - 1)
       \cup {List(vs) : vs \in SeqsUpTo(Vals(n - 1), MaxLen)}
       \cup {DocumentValue(f) : f \in MapsOver(NestedKeys, Vals(n - 1))}

\* values nested one level deeper than the generated ones
DeepSamples ==
  { List(<<DocumentValue([k \in {"k"} |-> List(<<Number(Text42), Bool(TRUE)>>)]), Str(TextX)>>),
    DocumentValue([k \in {"k"} |-> List(<<List(<<Str(<<>>)>>), Str(TextX)>>)]),
    List(<<List(<<Binary(<<77>>)>>), DocumentValue([k \in {"k"} |-> Str(TextBad)])>>) }

CodecValues == Leafs \cup Vals(MaxDepth) \cup DeepSamples

CodecDocs ==
  {Document([k \in {"a"} |-> v]) : v \in CodecValues}
  \cup {Document([k \in {"a", "b"} |-> IF k = "a" THEN v ELSE w]) :
          v \in CodecValues, w \in Elems}

\* ------------------------------------------ encode, then decode afresh
InitCodec ==
  /\ d \in CodecDocs
  /\ d0 = d
  /\ hist = <<>>
  /\ wire = InvalidJson
  /\ dst = NilDocument
  /\ ret = NoCall

\* buf, err := d.MarshalJSON()
Marshal ==
  /\ ret.op = "none"
  /\ wire' = MarshalJSON(d)
  /\ ret' = [op |-> "MarshalJSON"]
  /\ UNCHANGED <<d, d0, hist, dst>>

\* var fresh Document; err := fresh.UnmarshalJSON(buf)
UnmarshalFresh ==
  /\ ret.op = "MarshalJSON"
  /\ \E r \in UnmarshalJSON(NilDocument, wire) :
       /\ dst' = r.d
       /\ ret' = [op |-> "UnmarshalJSON", outcome |-> r.outcome]
  /\ UNCHANGED <<d, d0, hist, wire>>

NextCodec == Marshal \/ UnmarshalFresh

SpecCodec == InitCodec /\ [][NextCodec]_vars

\* ------------------------------------------------ properties of the codec
\* the values the design document lists as empty
ListedEmpty(v) ==
  v \in {Nil, Str(<<>>), Number(<<>>), Binary(<<>>), StringSet(<<>>), NumberSet(<<>>),
         BinarySet(<<>>), List(<<>>), DocumentValue(NoFields)}

HasZeroLength(v) ==
  \/ v.kind \in {"String", "Number"} /\ v.s = <<>>
  \/ v.kind = "Binary" /\ v.bytes = <<>>
  \/ v.kind \in {"StringSet", "NumberSet"} /\ v.strs = <<>>
  \/ v.kind = "BinarySet" /\ v.blobs = <<>>
  \/ v.kind = "List" /\ v.items = <<>>
  \/ v.kind = "Document" /\ DOMAIN v.fields = {}

RECURSIVE NoEmptyInside(_)
NoEmptyInside(v) ==
  CASE v.kind = "List" ->
         \A i \in DOMAIN v.items : ~ListedEmpty(v.items[i]) /\ NoEmptyInside(v.items[i])
    [] v.kind = "Document" ->
         \A k \in DOMAIN v.fields : ~ListedEmpty(v.fields[k]) /\ NoEmptyInside(v.fields[k])
    [] OTHER -> TRUE

ValidText(t) == \A i \in DOMAIN t : t[i] # BadByte

RECURSIVE ValidUtf8(_)
ValidUtf8(v) ==
  CASE v.kind \in {"String", "Number"} -> ValidText(v.s)
    [] v.kind \in {"StringSet", "NumberSet"} -> \A i \in DOMAIN v.strs : ValidText(v.strs[i])
    [] v.kind = "List" -> \A i \in DOMAIN v.items : ValidUtf8(v.items[i])
    [] v.kind = "Document" -> \A k \in DOMAIN v.fields : ValidUtf8(v.fields[k])
    [] OTHER -> TRUE

RECURSIVE Depth(_)
Depth(v) ==
  CASE v.kind = "List" /\ v.items # <<>> ->
         1 + (CHOOSE n \in {Depth(v.items[i]) : i \in DOMAIN v.items} :
                \A i \in DOMAIN v.items : Depth(v.items[i]) <= n)
    [] v.kind = "Document" /\ DOMAIN v.fields # {} ->
         1 + (CHOOSE n \in {Depth(v.fields[k]) : k \in DOMAIN v.fields} :
                \A k \in DOMAIN v.fields : Depth(v.fields[k]) <= n)
    [] OTHER -> 0

Emitted == DOMAIN wire.tree.obj

\* C1 as stated: every non-empty value stored under a key comes back from
\* MarshalJSON followed by UnmarshalJSON into a fresh Document structurally
\* equal, a Number with its text unchanged.
C1_RoundTripAnyNonEmpty ==
  ret.op = "UnmarshalJSON" =>
    \A k \in DOMAIN d.m :
      ~ListedEmpty(d.m[k]) => k \in DOMAIN dst.m /\ dst.m[k] = d.m[k]

\* C1 amended: the round trip holds for every non-empty value that nests no
\* empty value at any depth and whose texts are valid UTF-8.
C1_RoundTrip ==
  ret.op = "UnmarshalJSON" =>
    /\ ret.outcome = "ok"
    /\ \A k \in DOMAIN d.m :
         ~ListedEmpty(d.m[k]) /\ NoEmptyInside(d.m[k]) /\ ValidUtf8(d.m[k]) =>
           k \in DOMAIN dst.m /\ dst.m[k] = d.m[k]

C1_Witness ==
  /\ ret.op = "UnmarshalJSON"
  /\ d.m["a"].kind = "List"
  /\ Depth(d.m["a"]) = 3
  /\ NoEmptyInside(d.m["a"])
  /\ dst.m["a"] = d.m["a"]
  /\ "b" \in DOMAIN d.m /\ d.m["b"] = Number(Text150) /\ dst.m["b"].s = Text150

\* C2: the encoded key set is exactly the keys with non-empty values, and
\* decoding the output into a fresh Document yields exactly those keys.
C2_EmptyFieldsOmitted ==
  /\ ret.op \in {"MarshalJSON", "UnmarshalJSON"} =>
       Emitted = {k \in DOMAIN d.m : ~ListedEmpty(d.m[k])}
  /\ ret.op = "UnmarshalJSON" =>
       /\ ~dst.nil
       /\ DOMAIN dst.m = {k \in DOMAIN d.m : ~ListedEmpty(d.m[k])}

C2_Witness ==
  /\ ret.op = "UnmarshalJSON"
  /\ d.m["a"] = StringSet(<<>>)
  /\ "b" \in DOMAIN d.m /\ d.m["b"] = Str(TextX)
  /\ DOMAIN dst.m = {"b"}

NodeS == Tagged("S", JStr(TextX))
NodeN == Tagged("N", JStr(Text42))
NodeNull == Tagged("NULL", JBool(TRUE))
NodeBool == Tagged("BOOL", JBool(TRUE))
NodeL == Tagged("L", JArr(<<NodeS, NodeN>>))
NodeNone == JObj(NoObj)
NodeTwo == JObj([k \in {"S", "N"} |-> JStr(TextX)])
NodeUnknown == Tagged("Q", JStr(TextX))
NodeDeepBad == Tagged("L", JArr(<<NodeS, NodeNone>>))

Fields1(k, n) == JObj([x \in {k} |-> n])
Fields2(na, nb) == JObj([x \in {"a", "b"} |-> IF x = "a" THEN na ELSE nb])

GoodPayloads ==
  { JsonMarshal(Fields1("b", NodeS)), JsonMarshal(Fields1("a", NodeN)),
    JsonMarshal(Fields2(NodeNull, NodeL)), JsonMarshal(Fields2(NodeBool, NodeN)),
    JsonMarshal(JObj(NoObj)) }

BadPayloads ==
  { JsonMarshal(Fields1("a", NodeNone)), JsonMarshal(Fields2(NodeS, NodeTwo)),
    JsonMarshal(Fields1("b", NodeUnknown)), JsonMarshal(Fields2(NodeDeepBad, NodeN)) }

\* a buffer that is not JSON, and one that is JSON but not an object
Payloads == GoodPayloads \cup BadPayloads \cup {InvalidJson, JsonMarshal(JArr(<<>>))}

InitDocs ==
  { NilDocument, Document(NoFields), Document([k \in {"a"} |-> Str(TextX)]),
    Document([k \in {"a", "b"} |-> IF k = "a" THEN Number(Text150) ELSE Str(<<>>)]) }

Init ==
  /\ d \in InitDocs
  /\ d0 = d
  /\ hist = <<>>
  /\ wire = InvalidJson
  /\ dst = NilDocument
  /\ ret = NoCall

Panicked == ret.op = "UnmarshalJSON" /\ ret.outcome = "panic"

\* err := d.UnmarshalJSON(buf), buf from the service or from MarshalCurrent
Unmarshal ==
  /\ ~Panicked
  /\ \E buf \in Payloads \cup {wire} :
       \E r \in UnmarshalJSON(d, buf) :
         /\ r.outcome = "ok" => Len(hist) < MaxCalls
         /\ d' = r.d
         /\ hist' = IF r.outcome = "ok" THEN Append(hist, buf) ELSE hist
         /\ ret' = [op |-> "UnmarshalJSON", outcome |-> r.outcome, buf |-> buf]
  /\ UNCHANGED <<d0, wire, dst>>

\* buf, err := d.MarshalJSON()
MarshalCurrent ==
  /\ ~Panicked
  /\ wire' = MarshalJSON(d)
  /\ ret' = [op |-> "MarshalJSON"]
  /\ UNCHANGED <<d, d0, hist, dst>>

Next == Unmarshal \/ MarshalCurrent

Spec == Init /\ [][Next]_vars

\* ------------------------------------------------ properties of the merge
PayloadKeys(buf) == DOMAIN buf.tree.obj
CarriedBy(k) == {i \in DOMAIN hist : k \in PayloadKeys(hist[i])}
LastCarrier(k) == CHOOSE i \in CarriedBy(k) : \A j \in CarriedBy(k) : j <= i

\* C3: after any sequence of successful UnmarshalJSON calls the key set is
\* the initial keys plus all payload keys, a key not in any payload keeps its
\* initial value, a key in a payload holds the decoded value of the last
\* payload that carried it, and a nil Document has been initialised.
C3_DecodeMerges ==
  ~Panicked =>
    /\ hist # <<>> => ~d.nil
    /\ DOMAIN d.m = DOMAIN d0.m \cup UNION {PayloadKeys(hist[i]) : i \in DOMAIN hist}
    /\ \A k \in DOMAIN d.m :
         IF CarriedBy(k) = {}
           THEN d.m[k] = d0.m[k]
           ELSE d.m[k] = wireDecode(hist[LastCarrier(k)].tree.obj[k]).val

C3_Witness ==
  /\ d0 = Document([k \in {"a"} |-> Str(TextX)])
  /\ Len(hist) = 2
  /\ hist[1] = JsonMarshal(Fields2(NodeBool, NodeN))
  /\ hist[2] = JsonMarshal(Fields1("b", NodeS))
  /\ d = Document([k \in {"a", "b"} |-> IF k = "a" THEN Bool(TRUE) ELSE Str(TextX)])

Discriminators == {"S", "N", "B", "BOOL", "NULL", "SS", "NS", "BS", "L", "M"}

Malformed(n) ==
  /\ n.j = "obj"
  /\ \/ Cardinality(DOMAIN n.obj) # 1
     \/ \E tag \in DOMAIN n.obj : tag \notin Discriminators

\* C4: a field whose wire node has zero, several or an unrecognized
\* discriminator makes UnmarshalJSON return an error (no panic, no success).
C4_MalformedNodeIsError ==
  ret.op = "UnmarshalJSON" /\ ret.buf.valid /\ ret.buf.tree.j = "obj"
    /\ (\E k \in PayloadKeys(ret.buf) : Malformed(ret.buf.tree.obj[k]))
    => ret.outcome = "error"

\* ------------------------------------------------ strconv.Atoi (20-22)
Digits == <<"0", "1", "2", "3", "4", "5", "6", "7", "8", "9">>
IsDigit(c) == \E i \in 1..10 : Digits[i] = c
DigitVal(c) == (CHOOSE i \in 1..10 : Digits[i] = c) - 1

RECURSIVE DecimalVal(_)
DecimalVal(t) ==
  IF t = <<>> THEN 0 ELSE DecimalVal(SubSeq(t, 1, Len(t) - 1)) * 10 + DigitVal(t[Len(t)])

\* Number.IntVal: the int and whether an error came with it.  The texts of
\* the model are short, so the range error of Atoi does not arise.
IntVal(t) ==
  LET signed == t # <<>> /\ t[1] \in {"+", "-"}
      body == IF signed THEN Tail(t) ELSE t
  IN IF body = <<>> \/ \E i \in DOMAIN body : ~IsDigit(body[i])
       THEN [err |-> TRUE, val |-> 0]
       ELSE [err |-> FALSE,
             val |-> IF signed /\ t[1] = "-" THEN 0 - DecimalVal(body) ELSE DecimalVal(body)]

\* ------------------------------------------------ time.ParseInLocation
\* for the layout iso8601compact = "20060102T150405Z" in time.UTC
IsLeap(y) == y % 4 = 0 /\ (y % 100 # 0 \/ y % 400 = 0)
DaysIn(mo, y) ==
  IF mo = 2 THEN (IF IsLeap(y) THEN 29 ELSE 28)
  ELSE IF mo \in {4, 6, 9, 11} THEN 30 ELSE 31

AllDigits(t) == \A i \in DOMAIN t : IsDigit(t[i])
NoTime == [year |-> 0, month |-> 0, day |-> 0, hour |-> 0, min |-> 0, sec |-> 0, frac |-> <<>>]

\* the digits of a fractional second that follows the seconds field
RECURSIVE DigitRun(_)
DigitRun(t) ==
  IF t # <<>> /\ IsDigit(t[1]) THEN <<t[1]>> \o DigitRun(Tail(t)) ELSE <<>>

ParseTime(t) ==
  IF Len(t) < 16 \/ ~AllDigits(SubSeq(t, 1, 8)) \/ t[9] # "T" \/ ~AllDigits(SubSeq(t, 10, 15))
    THEN [err |-> TRUE, time |-> NoTime]
  ELSE
    LET y == DecimalVal(SubSeq(t, 1, 4))
        mo == DecimalVal(SubSeq(t, 5, 6))
        dd == DecimalVal(SubSeq(t, 7, 8))
        h == DecimalVal(SubSeq(t, 10, 11))
        mi == DecimalVal(SubSeq(t, 12, 13))
        sc == DecimalVal(SubSeq(t, 14, 15))
        after == SubSeq(t, 16, Len(t))
        hasFrac == Len(after) >= 2 /\ after[1] \in {".", ","} /\ IsDigit(after[2])
        frac == IF hasFrac THEN DigitRun(Tail(after)) ELSE <<>>
        rest == IF hasFrac THEN SubSeq(after, 2 + Len(frac), Len(after)) ELSE after
    IN IF mo \in 1..12 /\ dd \in 1..DaysIn(mo, y) /\ h \in 0..23 /\ mi \in 0..59
          /\ sc \in 0..59 /\ rest = <<"Z">>
         THEN [err |-> FALSE,
               time |-> [year |-> y, month |-> mo, day |-> dd, hour |-> h, min |-> mi,
                         sec |-> sc, frac |-> frac]]
         ELSE [err |-> TRUE, time |-> NoTime]

\* ------------------------------------------------ typed getters (66-138)
Returns(v) == [outcome |-> "ok", val |-> v]
Panics == [outcome |-> "panic", val |-> Nil]

\* d[key] != nil
Holds(doc, key) == key \in DOMAIN doc.m /\ doc.m[key].kind # "Nil"

\* the getter written with the two-result type assertion
GetStringCommaOk(doc, key) ==
  IF Holds(doc, key) /\ doc.m[key].kind = "String"
    THEN Returns(Str(doc.m[key].s))
    ELSE Returns(Str(<<>>))

GetString(doc, key) ==
  IF Holds(doc, key)
    THEN IF doc.m[key].kind = "String" THEN Returns(Str(doc.m[key].s)) ELSE Panics
    ELSE Returns(Str(<<>>))

\* the getter with "0" as the default
GetNumberZeroDefault(doc, key) ==
  IF Holds(doc, key)
    THEN IF doc.m[key].kind = "Number" THEN Returns(Number(doc.m[key].s)) ELSE Panics
    ELSE Returns(Number(<<"0">>))

GetNumber(doc, key) ==
  IF Holds(doc, key)
    THEN IF doc.m[key].kind = "Number" THEN Returns(Number(doc.m[key].s)) ELSE Panics
    ELSE Returns(Number(<<>>))

GetStringSet(doc, key) ==
  IF Holds(doc, key)
    THEN IF doc.m[key].kind = "StringSet" THEN Returns(StringSet(doc.m[key].strs)) ELSE Panics
    ELSE Returns(StringSet(<<>>))

GetList(doc, key) ==
  IF Holds(doc, key)
    THEN IF doc.m[key].kind = "List" THEN Returns(List(doc.m[key].items)) ELSE Panics
    ELSE Returns(List(<<>>))

\* the result is a *time.Time: nil, or a pointer to the parsed time
NilTime == [isNil |-> TRUE, time |-> NoTime]
PointerTo(tm) == [isNil |-> FALSE, time |-> tm]

GetTime(doc, key) ==
  IF Holds(doc, key)
    THEN IF doc.m[key].kind = "String"
           THEN IF ParseTime(doc.m[key].s).err
                  THEN [outcome |-> "panic", val |-> NilTime]
                  ELSE Returns(PointerTo(ParseTime(doc.m[key].s).time))
           ELSE [outcome |-> "panic", val |-> NilTime]
    ELSE Returns(NilTime)

\* the shim that takes every non-zero int for true
GetBoolNonZero(doc, key) ==
  IF Holds(doc, key)
    THEN IF doc.m[key].kind = "Number"
           THEN Returns(Bool(IntVal(doc.m[key].s).val # 0))
           ELSE Panics
    ELSE Returns(Bool(FALSE))

GetBool(doc, key) ==
  IF Holds(doc, key)
    THEN IF doc.m[key].kind = "Number"
           THEN Returns(Bool(IntVal(doc.m[key].s).val = 1))
           ELSE Panics
    ELSE Returns(Bool(FALSE))

\* ------------------------------------------------ Params (118-124, 153-161)
Param(key, value) == [Key |-> key, Value |-> value]

ParamAsParams(p) == <<p>>

Orderings(S) == {f \in [1..Cardinality(S) -> S] : \A i, j \in DOMAIN f : f[i] = f[j] => i = j}

\* the enumeration that leaves out the fields MarshalJSON would leave out
DocumentAsParamsNonEmpty(doc) ==
  {[i \in DOMAIN o |-> Param(o[i], doc.m[o[i]])] :
     o \in Orderings({k \in DOMAIN doc.m : ~isEmptyValue(doc.m[k])})}

\* one Param per field, in the order the map range happens to produce
DocumentAsParams(doc) ==
  {[i \in DOMAIN o |-> Param(o[i], doc.m[o[i]])] : o \in Orderings(DOMAIN doc.m)}

ParamSource(p) == [type |-> "Param", p |-> p, doc |-> NilDocument]
DocumentSource(doc) == [type |-> "Document", p |-> Param("", Nil), doc |-> doc]

AsParams(src) ==
  IF src.type = "Param" THEN {ParamAsParams(src.p)} ELSE DocumentAsParams(src.doc)

\* the builder's flattening of its variadic sources, in call order
RECURSIVE paramsHelper(_)
paramsHelper(srcs) ==
  IF srcs = <<>> THEN {<<>>}
  ELSE {h \o t : h \in AsParams(Head(srcs)), t \in paramsHelper(Tail(srcs))}

\* ------------------------------------------------ reading a Document
TimeOk == <<"2","0","1","5","0","2","2","8","T","2","3","5","9","0","0","Z">>
TimeFraction == <<"2","0","1","6","0","2","2","9","T","0","0","0","0","5","9",".","5","Z">>
TimeNoSuchDay == <<"2","0","1","5","0","2","2","9","T","0","0","0","0","0","0","Z">>
TimeDashed == <<"2","0","1","5","-","0","2","-","2","8">>

GetterValues ==
  { Nil, Str(<<>>), Str(TextX), Str(TimeOk), Str(TimeFraction), Str(TimeNoSuchDay),
    Str(TimeDashed),
    Number(<<>>), Number(<<"1">>), Number(<<"0">>), Number(<<"0", "1">>),
    Number(<<"+", "1">>), Number(<<"-", "1">>), Number(<<"1", "1">>), Number(<<"2">>),
    Number(<<"1", ".", "0">>), Number(TextX), Number(<<"+">>),
    Bool(TRUE), Bool(FALSE), Binary(<<1>>),
    StringSet(<<>>), StringSet(<<TextX>>), NumberSet(<<<<"1">>>>),
    List(<<>>), List(<<Str(TextX)>>), DocumentValue(NoFields) }

GetterDocs ==
  {Document(NoFields), Document([k \in {"b"} |-> Number(<<"1">>)])}
  \cup {Document([k \in {"a"} |-> v]) : v \in GetterValues}
  \cup {Document([k \in {"a", "b"} |-> IF k = "a" THEN v ELSE w]) :
          v \in GetterValues, w \in {Str(TextX), Number(<<"1">>)}}

AskKeys == Keys \cup {"c"}

SampleParams == {Param(":a", Number(<<"1">>)), Param("a", Str(TextX))}
Sources == {ParamSource(p) : p \in SampleParams} \cup {DocumentSource(d)}

InitGet ==
  /\ d \in GetterDocs
  /\ d0 = d
  /\ hist = <<>>
  /\ wire = InvalidJson
  /\ dst = NilDocument
  /\ ret = NoCall

Called(name, key, r) == [op |-> name, key |-> key, outcome |-> r.outcome, val |-> r.val]

CallGetString ==
  /\ \E key \in AskKeys : ret' = Called("GetString", key, GetString(d, key))
  /\ UNCHANGED <<d, d0, hist, wire, dst>>

CallGetNumber ==
  /\ \E key \in AskKeys : ret' = Called("GetNumber", key, GetNumber(d, key))
  /\ UNCHANGED <<d, d0, hist, wire, dst>>

CallGetStringSet ==
  /\ \E key \in AskKeys : ret' = Called("GetStringSet", key, GetStringSet(d, key))
  /\ UNCHANGED <<d, d0, hist, wire, dst>>

CallGetList ==
  /\ \E key \in AskKeys : ret' = Called("GetList", key, GetList(d, key))
  /\ UNCHANGED <<d, d0, hist, wire, dst>>

CallGetTime ==
  /\ \E key \in AskKeys : ret' = Called("GetTime", key, GetTime(d, key))
  /\ UNCHANGED <<d, d0, hist, wire, dst>>

CallGetBool ==
  /\ \E key \in AskKeys : ret' = Called("GetBool", key, GetBool(d, key))
  /\ UNCHANGED <<d, d0, hist, wire, dst>>

CallParamAsParams ==
  /\ \E p \in SampleParams : ret' = [op |-> "Param.AsParams", p |-> p, val |-> ParamAsParams(p)]
  /\ UNCHANGED <<d, d0, hist, wire, dst>>

CallDocumentAsParams ==
  /\ \E r \in DocumentAsParams(d) : ret' = [op |-> "Document.AsParams", val |-> r]
  /\ UNCHANGED <<d, d0, hist, wire, dst>>

\* query.Params(sources...)
CallParams ==
  /\ \E srcs \in SeqsUpTo(Sources, MaxSources) :
       \E r \in paramsHelper(srcs) : ret' = [op |-> "Params", srcs |-> srcs, val |-> r]
  /\ UNCHANGED <<d, d0, hist, wire, dst>>

NextGet ==
  \/ CallGetString \/ CallGetNumber \/ CallGetStringSet \/ CallGetList
  \/ CallGetTime \/ CallGetBool
  \/ CallParamAsParams \/ CallDocumentAsParams \/ CallParams

SpecGet == InitGet /\ [][NextGet]_vars

\* ------------------------------------------------ properties of the getters
\* C6: GetTime gives nil for an absent key and for the empty string, the
\* parsed time for a well-formed string, and panics only for a non-empty
\* string that does not parse.
C6_GetTimeNilOnEmpty ==
  ret.op = "GetTime" =>
    /\ ret.key \notin DOMAIN d.m => ret.outcome = "ok" /\ ret.val.isNil
    /\ ret.key \in DOMAIN d.m /\ d.m[ret.key].kind = "String" =>
         LET s == d.m[ret.key].s
         IN /\ s = <<>> => ret.outcome = "ok" /\ ret.val.isNil
            /\ ~ParseTime(s).err =>
                 ret.outcome = "ok" /\ ret.val = PointerTo(ParseTime(s).time)
            /\ ret.outcome = "panic" => s # <<>> /\ ParseTime(s).err

DefaultOf(op) ==
  CASE op = "GetString" -> Str(<<>>)
    [] op = "GetNumber" -> Number(<<>>)
    [] op = "GetStringSet" -> StringSet(<<>>)
    [] op = "GetList" -> List(<<>>)
    [] op = "GetBool" -> Bool(FALSE)

\* C7: for a key absent from the Document, GetString, GetNumber, GetStringSet,
\* GetList and GetBool return their zero default without failing, and the
\* Document is as it was.
C7_AbsentKeyDefaults ==
  ret.op \in {"GetString", "GetNumber", "GetStringSet", "GetList", "GetBool"}
    /\ ret.key \notin DOMAIN d0.m
    => ret.outcome = "ok" /\ ret.val = DefaultOf(ret.op) /\ d = d0

C7_Witness ==
  /\ ret.op = "GetNumber"
  /\ ret.key = "c"
  /\ DOMAIN d.m = {"a", "b"}
  /\ ret.val = Number(<<>>)

ExpectedKind(op) ==
  CASE op \in {"GetString", "GetTime"} -> "String"
    [] op \in {"GetNumber", "GetBool"} -> "Number"
    [] op = "GetStringSet" -> "StringSet"
    [] op = "GetList" -> "List"

\* C8: a typed getter called on a key holding a non-nil value of another
\* kind than the getter's panics.
C8_WrongKindPanics ==
  ret.op \in {"GetString", "GetNumber", "GetStringSet", "GetList", "GetBool", "GetTime"}
    /\ ret.key \in DOMAIN d.m
    /\ d.m[ret.key].kind \notin {"Nil", ExpectedKind(ret.op)}
    => ret.outcome = "panic"

C8_Witness ==
  \/ /\ ret.op = "GetString"
     /\ ret.key = "a"
     /\ "a" \in DOMAIN d.m /\ d.m["a"] = Number(<<"1">>)
     /\ ret.outcome = "panic"
  \/ /\ ret.op = "GetBool"
     /\ ret.key = "a"
     /\ "a" \in DOMAIN d.m /\ d.m["a"] = Bool(TRUE)
     /\ ret.outcome = "panic"

\* the text is an optional plus sign, any number of zeros and a final 1
ParsesAsOne(t) ==
  LET body == IF t # <<>> /\ t[1] = "+" THEN Tail(t) ELSE t
  IN /\ body # <<>>
     /\ body[Len(body)] = "1"
     /\ \A i \in 1..(Len(body) - 1) : body[i] = "0"

\* C9: GetBool is true for a Number whose text parses as the integer 1 and
\* false for every other Number text and for an absent key.
C9_GetBoolFromNumber ==
  ret.op = "GetBool" =>
    IF ret.key \notin DOMAIN d.m THEN ret.outcome = "ok" /\ ret.val = Bool(FALSE)
    ELSE d.m[ret.key].kind = "Number" =>
           ret.outcome = "ok" /\ ret.val = Bool(ParsesAsOne(d.m[ret.key].s))

C9_Witness ==
  /\ ret.op = "GetBool"
  /\ ret.key = "a"
  /\ "a" \in DOMAIN d.m /\ d.m["a"] = Number(<<"0", "1">>)
  /\ ret.val = Bool(TRUE)

SizeOf(src) == IF src.type = "Param" THEN 1 ELSE Cardinality(DOMAIN src.doc.m)

RECURSIVE SumSizes(_)
SumSizes(srcs) == IF srcs = <<>> THEN 0 ELSE SizeOf(Head(srcs)) + SumSizes(Tail(srcs))

Segment(val, srcs, i) ==
  SubSeq(val, SumSizes(SubSeq(srcs, 1, i - 1)) + 1, SumSizes(SubSeq(srcs, 1, i)))

OnePerField(ps, doc) ==
  /\ Len(ps) = Cardinality(DOMAIN doc.m)
  /\ \A k \in DOMAIN doc.m : Cardinality({i \in DOMAIN ps : ps[i].Key = k}) = 1
  /\ \A i \in DOMAIN ps : ps[i].Key \in DOMAIN doc.m /\ ps[i].Value = doc.m[ps[i].Key]

\* C10: a Param reduces to the one-element sequence of itself, a Document to
\* one Param per field, and flattening keeps every Param of every source in
\* call order without removing duplicates.
C10_ParamsReduction ==
  /\ ret.op = "Param.AsParams" => ret.val = <<ret.p>>
  /\ ret.op = "Document.AsParams" => OnePerField(ret.val, d)
  /\ ret.op = "Params" =>
       /\ Len(ret.val) = SumSizes(ret.srcs)
       /\ \A i \in DOMAIN ret.srcs :
            IF ret.srcs[i].type = "Param"
              THEN Segment(ret.val, ret.srcs, i) = <<ret.srcs[i].p>>
              ELSE OnePerField(Segment(ret.val, ret.srcs, i), ret.srcs[i].doc)

C10_Witness ==
  /\ ret.op = "Params"
  /\ DOMAIN d.m = {"a", "b"}
  /\ ret.srcs = <<ParamSource(Param("a", Str(TextX))), DocumentSource(d)>>
  /\ Len(ret.val) = 3
  /\ ret.val[1].Key = "a" /\ ret.val[2].Key = "b" /\ ret.val[3].Key = "a"

====
